---- MODULE Spec2Model ----
(***************************************************************************)
(* The funnel store (src/src/store/funnelStore.ts): the node and edge      *)
(* collections, the per-type counters, the localStorage entry and the      *)
(* pending auto-save timers, with one action per store operation.          *)
(*                                                                         *)
(* Encoding of JavaScript values.  A counter is a JavaScript number or,    *)
(* after JSON.parse, null; a missing property reads as undefined.  TLC     *)
(* cannot compare an integer with a string, so the three non-numbers are   *)
(* negative integers (NaN, Null, Undefined): no counter of the program is  *)
(* ever negative.  A handle id that is null is the string NullHandle.      *)
(* A JSON text is a record: wellFormed says whether JSON.parse accepts it, *)
(* has is the set of top-level keys of the parsed object, nodesArr and     *)
(* edgesArr say whether the value under that key is an array.              *)
(***************************************************************************)
EXTENDS Integers, Sequences, FiniteSets, TLC

VARIABLES
    nodes,          \* state.nodes: sequence of node records
    edges,          \* state.edges: sequence of edge records
    nodeCounters,   \* state.nodeCounters: function on a subset of NodeTypes
    undef,          \* keys of the state whose value is undefined
    storage,        \* localStorage entry under STORAGE_KEY
    pending,        \* number of setTimeout(saveToStorage, 100) callbacks not yet run
    now,            \* Date.now()
    created,        \* history: the number of nodes brought in by addNode and by imported files
    panelIssues,    \* the issues ValidationPanel holds in its useMemo
    issued,         \* history: per repeatable type, the last ordinal put in a generated label
    last            \* history: the operation that made the last step

vars == <<nodes, edges, nodeCounters, undef, storage, pending, now, panelIssues, created,
          issued, last>>

----------------------------------------------------------------------------
(* Bounds of the model *)

MaxNodes == 2       \* addNode is taken only while fewer nodes are present
MaxCreated == 2     \* nodes that addNode and imported files may bring in, in all
MaxTime == 1        \* the clock runs 0..MaxTime
MaxPending == 1     \* a mutation is taken only while fewer timers are pending
MaxBurst == 2       \* addNode is taken while fewer timers are pending: bursts of drops
MaxEdges == 2       \* onConnect appends an edge only while fewer edges are present
MaxPos == 0         \* drop positions are (0, 0), (0, 200), ... up to (0, 200 * MaxPos)

----------------------------------------------------------------------------
(* Types and the type registry *)

NodeTypes == {"sales", "order", "upsell", "downsell", "thankyou"}

NODE_CONFIGS ==
    [sales    |-> [label |-> "Sales Page", buttonLabel |-> "Buy Now"],
     order    |-> [label |-> "Order Page", buttonLabel |-> "Complete Order"],
     upsell   |-> [label |-> "Upsell",     buttonLabel |-> "Yes, Add This!"],
     downsell |-> [label |-> "Downsell",   buttonLabel |-> "Get This Instead"],
     thankyou |-> [label |-> "Thank You",  buttonLabel |-> "Continue"]]

STORAGE_KEYS == {"nodes", "edges", "nodeCounters"}

getInitialCounters == [t \in NodeTypes |-> 0]

NaN == -1
Null == -2
Undefined == -3
NullHandle == "null"

IsNumber(v) == v >= 0

\* a read that always finds the counter as getInitialCounters made it
PropInitial(c, t) == 0

\* nodeCounters[type]: a missing property reads as undefined
Prop(c, t) == IF t \in DOMAIN c THEN c[t] ELSE Undefined

\* an increment that adds nothing
PlusNothing(v) == v

\* v + 1 in JavaScript: undefined + 1 and NaN + 1 are NaN, null + 1 is 1
PlusOne(v) ==
    IF IsNumber(v) THEN v + 1
    ELSE IF v = Null THEN 1
    ELSE NaN

\* `${v}` of a number
NumText(v) == IF IsNumber(v) THEN ToString(v) ELSE "NaN"

Positions == {[x |-> 0, y |-> 200 * i] : i \in 0..MaxPos}

UserLabels == {"Intro"}

\* what the label editor of a node may hold when it loses focus
EditTexts == {"Intro", " Intro ", "", " "}

\* editLabel.trim() of those texts
Trim(text) ==
    CASE text = " Intro " -> "Intro"
      [] text = " " -> ""
      [] OTHER -> text

----------------------------------------------------------------------------
(* Array helpers *)

\* nodes.find((n) => n.id === id): the first match, or none
FindNode(ns, id) ==
    LET hits == {i \in 1..Len(ns) : ns[i].id = id}
    IN  IF hits = {} THEN <<>>
        ELSE <<ns[CHOOSE i \in hits : \A j \in hits : i <= j]>>

----------------------------------------------------------------------------
(* addNode: the id, the label and the node it builds *)

NodeId(type, time) == type \o "-" \o ToString(time)

NodeLabel(type, newCount) ==
    IF type = "sales" \/ type = "order" \/ type = "thankyou"
    THEN NODE_CONFIGS[type].label
    ELSE NODE_CONFIGS[type].label \o " " \o NumText(newCount)

NewNode(type, position, newCount, time) ==
    [id          |-> NodeId(type, time),
     type        |-> type,
     label       |-> NodeLabel(type, newCount),
     buttonLabel |-> NODE_CONFIGS[type].buttonLabel,
     position    |-> position]

----------------------------------------------------------------------------
(* onConnect: the edge it builds, and reactflow's addEdge *)

EdgeId(source, target) == "e" \o source \o "-" \o target

NewEdge(source, target, sourceHandle, targetHandle) ==
    [id           |-> EdgeId(source, target),
     source       |-> source,
     target       |-> target,
     sourceHandle |-> sourceHandle,
     targetHandle |-> targetHandle]

\* a null handle is falsy; the model has no empty-string handle ids
Falsy(h) == h = NullHandle

connectionExists(edge, es) ==
    \E i \in 1..Len(es) :
        LET el == es[i]
        IN  /\ el.source = edge.source
            /\ el.target = edge.target
            /\ (el.sourceHandle = edge.sourceHandle
                  \/ (Falsy(el.sourceHandle) /\ Falsy(edge.sourceHandle)))
            /\ (el.targetHandle = edge.targetHandle
                  \/ (Falsy(el.targetHandle) /\ Falsy(edge.targetHandle)))

\* addEdge without the connectionExists test
addEdgeAlways(edge, es) == Append(es, edge)

addEdge(edge, es) ==
    IF connectionExists(edge, es) THEN es ELSE Append(es, edge)

----------------------------------------------------------------------------
(* deleteNode, deleteEdge, updateNodeLabel: the collections they build *)

NodesWithout(ns, nodeId) == SelectSeq(ns, LAMBDA n : n.id # nodeId)

\* the cascade that looks at the source end only
EdgesNotLeaving(es, nodeId) == SelectSeq(es, LAMBDA e : e.source # nodeId)

EdgesNotTouching(es, nodeId) ==
    SelectSeq(es, LAMBDA e : e.source # nodeId /\ e.target # nodeId)

\* a filter that compares the source of the edge with the id given
EdgesWithoutBySource(es, edgeId) == SelectSeq(es, LAMBDA e : e.source # edgeId)

EdgesWithout(es, edgeId) == SelectSeq(es, LAMBDA e : e.id # edgeId)

RECURSIVE Relabelled(_, _, _)
\* nodes.map((node) => node.id === nodeId ? {...node, data: {...node.data, label}} : node)
Relabelled(ns, nodeId, label) ==
    IF ns = <<>> THEN <<>>
    ELSE LET n == Head(ns)
         IN  <<IF n.id = nodeId THEN [n EXCEPT !.label = label] ELSE n>>
                 \o Relabelled(Tail(ns), nodeId, label)

----------------------------------------------------------------------------
(* reactflow's applyNodeChanges / applyEdgeChanges for the changes the     *)
(* canvas reports: position, select, remove.  Each element takes the       *)
(* changes addressed to its id in the order given; a remove drops it.      *)

RECURSIVE ApplyToItem(_, _)
\* <<item>> after the changes, or <<>> when one of them removes it
ApplyToItem(item, changes) ==
    IF changes = <<>> THEN <<item>>
    ELSE LET c == Head(changes)
         IN  IF c.id # item.id THEN ApplyToItem(item, Tail(changes))
             ELSE IF c.type = "remove" THEN <<>>
             ELSE IF c.type = "position"
                  THEN ApplyToItem([item EXCEPT !.position = c.position], Tail(changes))
             ELSE ApplyToItem(item, Tail(changes))

RECURSIVE applyChanges(_, _)
applyChanges(changes, elements) ==
    IF elements = <<>> THEN <<>>
    ELSE ApplyToItem(Head(elements), changes) \o applyChanges(changes, Tail(elements))

applyNodeChanges(changes, ns) == applyChanges(changes, ns)

applyEdgeChanges(changes, es) == applyChanges(changes, es)

----------------------------------------------------------------------------
(* JSON.stringify and JSON.parse of { nodes, edges, nodeCounters } *)

NoCounters == [t \in {} |-> 0]

\* JSON has no NaN: JSON.stringify writes it as null
JsonNumber(v) == IF v = NaN THEN Null ELSE v

\* a property whose value is undefined is left out of the text
JSONstringify(ns, es, c, und) ==
    [wellFormed   |-> TRUE,
     has          |-> STORAGE_KEYS \ und,
     nodesArr     |-> "nodes" \notin und,
     edgesArr     |-> "edges" \notin und,
     nodes        |-> ns,
     edges        |-> es,
     nodeCounters |-> [t \in DOMAIN c |-> JsonNumber(c[t])]]

\* a text JSON.parse throws on
NotJson ==
    [wellFormed |-> FALSE, has |-> {}, nodesArr |-> FALSE, edgesArr |-> FALSE,
     nodes |-> <<>>, edges |-> <<>>, nodeCounters |-> NoCounters]

JsonObject(has, nodesArr, edgesArr, ns, es, c) ==
    [wellFormed |-> TRUE, has |-> has, nodesArr |-> nodesArr, edgesArr |-> edgesArr,
     nodes |-> ns, edges |-> es, nodeCounters |-> c]

exportJSON == JSONstringify(nodes, edges, nodeCounters, undef)

\* the test that looks at edges alone
EdgesArrayOk(json) == "edges" \in json.has /\ json.edgesArr

\* Array.isArray(nodes) && Array.isArray(edges) of the parsed text
ArraysOk(json) ==
    /\ "nodes" \in json.has /\ json.nodesArr
    /\ "edges" \in json.has /\ json.edgesArr

\* importJSON returns true
ImportAccepts(json) == json.wellFormed /\ ArraysOk(json)

\* nodeCounters || getInitialCounters(): an object is truthy, a missing key is undefined
ImportedCounters(json) ==
    IF "nodeCounters" \in json.has THEN json.nodeCounters ELSE getInitialCounters

----------------------------------------------------------------------------
(* The durable store *)

Absent == [present |-> FALSE, text |-> NotJson]

Stored(text) == [present |-> TRUE, text |-> text]

saveToStorage == Stored(JSONstringify(nodes, edges, nodeCounters, undef))

----------------------------------------------------------------------------
(* History *)

\* the last operation and how it went
NoOp == [op |-> "init", res |-> ""]

Did(op, res) == [op |-> op, res |-> res]

Repeatable == {"upsell", "downsell"}

NoneIssued == [t \in Repeatable |-> 0]

----------------------------------------------------------------------------
(* Initial state: the store as created, and what an earlier session or     *)
(* another writer left in localStorage                                      *)

EmptyObject == JsonObject({}, FALSE, FALSE, <<>>, <<>>, NoCounters)

InitialStored == {Absent, Stored(NotJson), Stored(EmptyObject)}

Init ==
    /\ nodes = <<>>
    /\ edges = <<>>
    /\ nodeCounters = getInitialCounters
    /\ undef = {}
    /\ storage \in InitialStored
    /\ pending = 0
    /\ now = 0
    /\ panelIssues = <<>>
    /\ created = 0
    /\ issued = NoneIssued
    /\ last = NoOp

InitEmpty == Init /\ storage = Absent

----------------------------------------------------------------------------
(* getValidationIssues *)

\* counting the edges that arrive instead of those that leave
FanIn(es, id) == Len(SelectSeq(es, LAMBDA e : e.target = id))

\* the number of edges leaving a node
FanOut(es, id) == Len(SelectSeq(es, LAMBDA e : e.source = id))

Quoted(label) == "\"" \o label \o "\""

\* taking the source end for the target end
LeavesNode(es, id) == \E i \in 1..Len(es) : es[i].source = id

HasIncoming(es, id) == \E i \in 1..Len(es) : es[i].target = id

HasOutgoing(es, id) == \E i \in 1..Len(es) : es[i].source = id

NodeIssue(type, message, nodeId) == [type |-> type, message |-> message, nodeId |-> nodeId]

\* the multiple-entry-points issue carries no nodeId
GraphIssue(type, message) == [type |-> type, message |-> message]

RECURSIVE OrphanIssues(_, _, _)
OrphanIssues(ns, es, total) ==
    IF ns = <<>> THEN <<>>
    ELSE LET node == Head(ns)
         IN  (IF ~HasIncoming(es, node.id) /\ ~HasOutgoing(es, node.id) /\ total > 1
              THEN <<NodeIssue("warning", Quoted(node.label) \o " is disconnected", node.id)>>
              ELSE <<>>)
             \o OrphanIssues(Tail(ns), es, total)

RECURSIVE SalesIssues(_, _, _)
SalesIssues(ns, es, total) ==
    IF ns = <<>> THEN <<>>
    ELSE LET node == Head(ns)
             outgoing == FanOut(es, node.id)
         IN  (IF node.type = "sales" /\ outgoing > 1
              THEN <<NodeIssue("warning",
                        Quoted(node.label) \o " has multiple outgoing connections (should have 1)",
                        node.id)>>
              ELSE <<>>)
             \o (IF node.type = "sales" /\ outgoing = 0 /\ total > 1
                 THEN <<NodeIssue("warning",
                           Quoted(node.label) \o " has no outgoing connection", node.id)>>
                 ELSE <<>>)
             \o SalesIssues(Tail(ns), es, total)

RECURSIVE ThankYouIssues(_, _)
ThankYouIssues(ns, es) ==
    IF ns = <<>> THEN <<>>
    ELSE LET node == Head(ns)
         IN  (IF node.type = "thankyou" /\ FanOut(es, node.id) > 0
              THEN <<NodeIssue("error",
                        Quoted(node.label) \o " should not have outgoing connections",
                        node.id)>>
              ELSE <<>>)
             \o ThankYouIssues(Tail(ns), es)

\* entry points counted without setting Thank You pages aside
EntryPointsOfAnyType(ns, es) == SelectSeq(ns, LAMBDA node : ~HasIncoming(es, node.id))

EntryPoints(ns, es) ==
    SelectSeq(ns, LAMBDA node : ~HasIncoming(es, node.id) /\ node.type # "thankyou")

EntryPointIssues(ns, es) ==
    LET count == Len(EntryPoints(ns, es))
    IN  IF count > 1 /\ Len(ns) > 1
        THEN <<GraphIssue("warning",
                  "Funnel has " \o ToString(count) \o " entry points (usually should be 1)")>>
        ELSE <<>>

\* the checks run with the Thank You rule ahead of the Sales Page rule
ValidationIssuesReordered(ns, es) ==
    OrphanIssues(ns, es, Len(ns))
        \o ThankYouIssues(ns, es)
        \o SalesIssues(ns, es, Len(ns))
        \o EntryPointIssues(ns, es)

ValidationIssues(ns, es) ==
    OrphanIssues(ns, es, Len(ns))
        \o SalesIssues(ns, es, Len(ns))
        \o ThankYouIssues(ns, es)
        \o EntryPointIssues(ns, es)

getValidationIssues == ValidationIssues(nodes, edges)

----------------------------------------------------------------------------
(* Actions *)

\* setTimeout(() => get().saveToStorage(), 100)
Schedule == pending' = pending + 1

CanSchedule == pending < MaxPending

CanBurst == pending < MaxBurst

\* ValidationPanel: useMemo(() => getValidationIssues(), [getValidationIssues, nodes])
\* runs getValidationIssues again when the store has been given a new nodes
\* array, and keeps the list it holds otherwise.  With nodes undefined the
\* call throws and nothing is rendered.
Rerender == panelIssues' = ValidationIssues(nodes', edges')

KeepIssues == panelIssues' = panelIssues

\* Date.now() is read by addNode alone: the clock is left alone once no
\* addNode can follow
Tick ==
    /\ now < MaxTime
    /\ created < MaxCreated
    /\ now' = now + 1
    /\ UNCHANGED <<nodes, edges, nodeCounters, undef, storage, pending, created, issued, last>>
    /\ KeepIssues

\* a pending timer runs saveToStorage
TimerFires ==
    /\ pending > 0
    /\ pending' = pending - 1
    /\ storage' = saveToStorage
    /\ last' = Did("saveToStorage", "")
    /\ UNCHANGED <<nodes, edges, nodeCounters, undef, now, created, issued>>
    /\ KeepIssues

addNode(type, position) ==
    /\ CanBurst
    /\ Len(nodes) < MaxNodes
    /\ created < MaxCreated
    /\ undef \cap {"nodes", "nodeCounters"} = {}
    /\ LET newCount == PlusOne(Prop(nodeCounters, type))
       IN  /\ nodes' = Append(nodes, NewNode(type, position, newCount, now))
           /\ nodeCounters' =
                 [t \in DOMAIN nodeCounters \cup {type} |->
                     IF t = type THEN newCount ELSE nodeCounters[t]]
           /\ issued' = IF type \in Repeatable
                        THEN [issued EXCEPT ![type] = newCount] ELSE issued
           /\ last' = Did("addNode", type)
    /\ created' = created + 1
    /\ Schedule
    /\ UNCHANGED <<edges, undef, storage, now>>
    /\ Rerender

\* deleteNode that gives the ordinal of the deleted node back to its type
deleteNodeDecrementing(nodeId) ==
    /\ CanSchedule
    /\ undef \cap {"nodes", "edges"} = {}
    /\ nodes' = NodesWithout(nodes, nodeId)
    /\ edges' = EdgesNotTouching(edges, nodeId)
    /\ nodeCounters' =
          LET found == FindNode(nodes, nodeId)
          IN  IF found = <<>> \/ found[1].type \notin DOMAIN nodeCounters THEN nodeCounters
              ELSE [nodeCounters EXCEPT ![found[1].type] = @ - 1]
    /\ last' = Did("deleteNode",
                  IF Len(nodes') = Len(nodes) THEN "absent"
                  ELSE IF Len(edges') = Len(edges) THEN "plain" ELSE "cascade")
    /\ Schedule
    /\ UNCHANGED <<undef, storage, now, created, issued>>
    /\ Rerender

deleteNode(nodeId) ==
    /\ CanSchedule
    /\ undef \cap {"nodes", "edges"} = {}
    /\ nodes' = NodesWithout(nodes, nodeId)
    /\ edges' = EdgesNotTouching(edges, nodeId)
    /\ last' = Did("deleteNode",
                  IF Len(nodes') = Len(nodes) THEN "absent"
                  ELSE IF Len(edges') = Len(edges) THEN "plain" ELSE "cascade")
    /\ Schedule
    /\ UNCHANGED <<nodeCounters, undef, storage, now, created, issued>>
    /\ Rerender

\* deleteEdge that sets no timer
deleteEdgeUnsaved(edgeId) ==
    /\ "edges" \notin undef
    /\ edges' = EdgesWithout(edges, edgeId)
    /\ last' = Did("deleteEdge", IF Len(edges') = Len(edges) THEN "absent" ELSE "removed")
    /\ UNCHANGED <<nodes, nodeCounters, undef, storage, pending, now, created, issued>>
    /\ KeepIssues

deleteEdge(edgeId) ==
    /\ CanSchedule
    /\ "edges" \notin undef
    /\ edges' = EdgesWithout(edges, edgeId)
    /\ last' = Did("deleteEdge", IF Len(edges') = Len(edges) THEN "absent" ELSE "removed")
    /\ Schedule
    /\ UNCHANGED <<nodes, nodeCounters, undef, storage, now, created, issued>>
    /\ KeepIssues

updateNodeLabel(nodeId, label) ==
    /\ CanSchedule
    /\ "nodes" \notin undef
    /\ nodes' = Relabelled(nodes, nodeId, label)
    /\ last' = Did("updateNodeLabel", "")
    /\ Schedule
    /\ UNCHANGED <<edges, nodeCounters, undef, storage, now, created, issued>>
    /\ Rerender

\* the label editor that hands over whatever it holds
handleBlurUnguarded(i, editLabel) ==
    /\ "nodes" \notin undef
    /\ updateNodeLabel(nodes[i].id, editLabel)

\* the label editor of the i-th node loses focus, or Enter is pressed in it
handleBlur(i, editLabel) ==
    /\ "nodes" \notin undef
    /\ IF Trim(editLabel) # "" /\ editLabel # nodes[i].label
       THEN updateNodeLabel(nodes[i].id, Trim(editLabel))
       ELSE /\ last' = Did("handleBlur", "kept")
            /\ UNCHANGED <<nodes, edges, nodeCounters, undef, storage, pending, now,
                           created, issued>>
            /\ KeepIssues

\* a lookup that never finds the source node
NoSourceType(source) == ""

\* the source node's data.type, or "" when nodes.find finds none
SourceType(source) ==
    LET found == FindNode(nodes, source)
    IN  IF found = <<>> THEN "" ELSE found[1].type

\* onConnect without the rule
NeverRejects(source) == FALSE

\* Rule: Thank You page cannot have outgoing edges
RejectsSource(source) == SourceType(source) = "thankyou"

\* the sales branch only logs a warning; the edge is added all the same
onConnect(source, target, sourceHandle, targetHandle) ==
    /\ "nodes" \notin undef
    /\ IF RejectsSource(source)
       THEN /\ last' = Did("onConnect", "rejected")
            /\ UNCHANGED <<nodes, edges, nodeCounters, undef, storage, pending, now,
                           created, issued>>
            /\ KeepIssues
       ELSE /\ CanSchedule
            /\ "edges" \notin undef
            /\ LET newEdge == NewEdge(source, target, sourceHandle, targetHandle)
               IN  /\ connectionExists(newEdge, edges) \/ Len(edges) < MaxEdges
                   /\ edges' = addEdge(newEdge, edges)
                   /\ last' = Did("onConnect",
                                  IF connectionExists(newEdge, edges)
                                  THEN "duplicate" ELSE "added")
            /\ Schedule
            /\ UNCHANGED <<nodes, nodeCounters, undef, storage, now, created, issued>>
            /\ KeepIssues

onNodesChange(changes) ==
    /\ CanSchedule
    /\ "nodes" \notin undef
    /\ nodes' = applyNodeChanges(changes, nodes)
    /\ last' = Did("onNodesChange", "")
    /\ Schedule
    /\ UNCHANGED <<edges, nodeCounters, undef, storage, now, created, issued>>
    /\ Rerender

onEdgesChange(changes) ==
    /\ CanSchedule
    /\ "edges" \notin undef
    /\ edges' = applyEdgeChanges(changes, edges)
    /\ last' = Did("onEdgesChange", "")
    /\ Schedule
    /\ UNCHANGED <<nodes, nodeCounters, undef, storage, now, created, issued>>
    /\ KeepIssues

\* loadFromStorage that starts from the empty canvas when it finds nothing to load
loadFromStorageResetting ==
    /\ IF storage.present /\ storage.text.wellFormed
       THEN /\ nodes' = storage.text.nodes
            /\ edges' = storage.text.edges
            /\ nodeCounters' = storage.text.nodeCounters
            /\ undef' = STORAGE_KEYS \ storage.text.has
            /\ issued' = NoneIssued
            /\ last' = Did("loadFromStorage", "loaded")
       ELSE /\ nodes' = <<>>
            /\ edges' = <<>>
            /\ nodeCounters' = getInitialCounters
            /\ undef' = {}
            /\ issued' = NoneIssued
            /\ last' = Did("loadFromStorage", "kept")
    /\ Rerender
    /\ UNCHANGED <<storage, pending, now, created>>

\* the keys the parsed object lacks come out of the destructuring as undefined
loadFromStorage ==
    /\ IF storage.present /\ storage.text.wellFormed
       THEN /\ nodes' = storage.text.nodes
            /\ edges' = storage.text.edges
            /\ nodeCounters' = storage.text.nodeCounters
            /\ undef' = STORAGE_KEYS \ storage.text.has
            /\ issued' = NoneIssued
            /\ last' = Did("loadFromStorage", "loaded")
            /\ Rerender
       ELSE /\ last' = Did("loadFromStorage", "kept")
            /\ UNCHANGED <<nodes, edges, nodeCounters, undef, issued>>
            /\ KeepIssues
    /\ UNCHANGED <<storage, pending, now, created>>

\* importJSON that leaves the write to a timer, as the editing operations do
importJSONDeferred(name, json) ==
    /\ IF ImportAccepts(json)
       THEN /\ name # "export" => created + Len(json.nodes) <= MaxCreated
            /\ CanSchedule
            /\ created' = IF name = "export" THEN created ELSE created + Len(json.nodes)
            /\ nodes' = json.nodes
            /\ edges' = json.edges
            /\ nodeCounters' = ImportedCounters(json)
            /\ undef' = {}
            /\ Schedule
            /\ issued' = NoneIssued
            /\ last' = Did("importJSON", name)
            /\ UNCHANGED storage
            /\ Rerender
       ELSE /\ last' = Did("importJSON", "rejected")
            /\ UNCHANGED <<nodes, edges, nodeCounters, undef, storage, pending, created, issued>>
            /\ KeepIssues
    /\ UNCHANGED now

importJSON(name, json) ==
    /\ IF ImportAccepts(json)
       THEN /\ name # "export" => created + Len(json.nodes) <= MaxCreated
            /\ created' = IF name = "export" THEN created ELSE created + Len(json.nodes)
            /\ nodes' = json.nodes
            /\ edges' = json.edges
            /\ nodeCounters' = ImportedCounters(json)
            /\ undef' = {}
            /\ storage' = Stored(JSONstringify(nodes', edges', nodeCounters', undef'))
            /\ issued' = NoneIssued
            /\ last' = Did("importJSON", name)
            /\ Rerender
       ELSE /\ last' = Did("importJSON", "rejected")
            /\ UNCHANGED <<nodes, edges, nodeCounters, undef, storage, created, issued>>
            /\ KeepIssues
    /\ UNCHANGED <<pending, now>>

\* clearCanvas that empties the canvas and keeps the counters
clearCanvasKeepingCounters ==
    /\ nodes' = <<>>
    /\ edges' = <<>>
    /\ nodeCounters' = nodeCounters
    /\ undef' = {}
    /\ storage' = Absent
    /\ issued' = NoneIssued
    /\ last' = Did("clearCanvas", "")
    /\ UNCHANGED <<pending, now, created>>
    /\ Rerender

clearCanvas ==
    /\ nodes' = <<>>
    /\ edges' = <<>>
    /\ nodeCounters' = getInitialCounters
    /\ undef' = {}
    /\ storage' = Absent
    /\ issued' = NoneIssued
    /\ last' = Did("clearCanvas", "")
    /\ UNCHANGED <<pending, now, created>>
    /\ Rerender

----------------------------------------------------------------------------
(* Inputs *)

IdsOf(s) == {s[i].id : i \in 1..Len(s)}

\* an id no addNode of the model generates
AbsentNodeId == "order-x"

AbsentEdgeId == "eorder-x-order-x"

\* ids a caller may name: the nodes present, the ends of the edges present, one absent
NodeIdInputs ==
    IdsOf(nodes) \cup {edges[i].source : i \in 1..Len(edges)}
                 \cup {edges[i].target : i \in 1..Len(edges)} \cup {AbsentNodeId}

EdgeIdInputs == IdsOf(edges) \cup {AbsentEdgeId}

Change(type, id, position, selected) ==
    [type |-> type, id |-> id, position |-> position, selected |-> selected]

Origin == [x |-> 0, y |-> 0]

\* the nodes no edge is connected to
Unconnected == {id \in IdsOf(nodes) : ~HasIncoming(edges, id) /\ ~HasOutgoing(edges, id)}

\* the node changes the canvas reports: drag, select, delete.  The canvas
\* reports the removal of a node after it has reported, through
\* onEdgesChange, the removal of the edges connected to that node.
NodeChanges ==
    {Change("position", id, p, FALSE) : id \in IdsOf(nodes) \cup {AbsentNodeId}, p \in Positions}
        \cup {Change("select", id, Origin, TRUE) : id \in IdsOf(nodes)}
        \cup {Change("remove", id, Origin, FALSE) : id \in Unconnected}

EdgeChanges ==
    {Change("select", id, Origin, TRUE) : id \in IdsOf(edges)}
        \cup {Change("remove", id, Origin, FALSE) : id \in IdsOf(edges) \cup {AbsentEdgeId}}

\* a batch is one change, or a move or remove followed by a remove
Batches(changes) ==
    {<<c>> : c \in changes}
        \cup {<<c, d>> : c \in {m \in changes : m.type # "select"},
                         d \in {r \in changes : r.type = "remove"}}

----------------------------------------------------------------------------
(* Files offered to importJSON *)

SalesNode == NewNode("sales", Origin, 1, 0)

ThankYouNode == NewNode("thankyou", Origin, 1, 0)

UpsellNode == NewNode("upsell", Origin, 1, 0)

OneEach == [t \in NodeTypes |-> 1]

ImportFiles ==
    [garbage         |-> NotJson,
     noNodes         |-> JsonObject({"edges"}, FALSE, TRUE, <<>>, <<>>, NoCounters),
     nodesNotArray   |-> JsonObject(STORAGE_KEYS, FALSE, TRUE, <<>>, <<>>, getInitialCounters),
     noEdges         |-> JsonObject({"nodes", "nodeCounters"}, TRUE, FALSE, <<SalesNode>>, <<>>,
                            OneEach),
     terminalOut     |-> JsonObject(STORAGE_KEYS, TRUE, TRUE, <<ThankYouNode>>,
                            <<NewEdge(ThankYouNode.id, ThankYouNode.id, NullHandle, NullHandle)>>,
                            OneEach),
     dangling        |-> JsonObject(STORAGE_KEYS, TRUE, TRUE, <<SalesNode>>,
                            <<NewEdge(SalesNode.id, ThankYouNode.id, NullHandle, NullHandle)>>,
                            OneEach),
     noCounters      |-> JsonObject({"nodes", "edges"}, TRUE, TRUE, <<UpsellNode>>, <<>>,
                            NoCounters),
     partialCounters |-> JsonObject(STORAGE_KEYS, TRUE, TRUE, <<>>, <<>>, NoCounters)]

----------------------------------------------------------------------------
(* Specifications *)

\* the operations that build and cut the graph, the clock and the auto-save timer
Core ==
    \/ \E type \in NodeTypes, position \in Positions : addNode(type, position)
    \/ \E nodeId \in NodeIdInputs : deleteNode(nodeId)
    \/ \E edgeId \in EdgeIdInputs : deleteEdge(edgeId)
    \/ \E source \in IdsOf(nodes), target \in IdsOf(nodes) :
          onConnect(source, target, NullHandle, NullHandle)
    \/ Tick
    \/ TimerFires

\* what the canvas reports: a label edited in place, batches of changes
Canvas ==
    \/ \E nodeId \in IdsOf(nodes) \cup {AbsentNodeId}, label \in UserLabels :
          updateNodeLabel(nodeId, label)
    \/ \E i \in 1..Len(nodes), editLabel \in EditTexts : handleBlur(i, editLabel)
    \/ \E changes \in Batches(NodeChanges) : onNodesChange(changes)
    \/ \E changes \in Batches(EdgeChanges) : onEdgesChange(changes)

\* the operations that replace the snapshot wholesale
Replace ==
    \/ loadFromStorage
    \/ \E name \in DOMAIN ImportFiles : importJSON(name, ImportFiles[name])
    \/ importJSON("export", exportJSON)
    \/ clearCanvas

Edit == Core \/ Canvas

Next == Core \/ Replace

\* building and cutting the graph, and the operations that replace the
\* snapshot, from the store as created over whatever localStorage holds
Spec == Init /\ [][Next]_vars

\* every editing operation, from the empty snapshot
SpecEdit == InitEmpty /\ [][Edit]_vars

\* the handle ids a Connection may carry: none, or the id of a handle
Handles == {NullHandle, "a"}

\* the graph built through the store with connections that may name handles
Wire ==
    \/ \E type \in NodeTypes, position \in Positions : addNode(type, position)
    \/ \E nodeId \in NodeIdInputs : deleteNode(nodeId)
    \/ \E edgeId \in EdgeIdInputs : deleteEdge(edgeId)
    \/ \E source \in IdsOf(nodes), target \in IdsOf(nodes),
          sourceHandle \in Handles, targetHandle \in Handles :
          onConnect(source, target, sourceHandle, targetHandle)
    \/ Tick
    \/ TimerFires

SpecHandles == InitEmpty /\ [][Wire]_vars

----------------------------------------------------------------------------
(* Properties *)

\* some node present has this id and this data.type
HasType(ns, id, type) == \E i \in 1..Len(ns) : ns[i].id = id /\ ns[i].type = type

\* some edge present goes from a to b
Connected(es, a, b) == \E i \in 1..Len(es) : es[i].source = a /\ es[i].target = b

\* the number of edges present that leave a
OutDegree(es, a) == Cardinality({i \in 1..Len(es) : es[i].source = a})

\* the edge onConnect(a, b) is to append
EdgeOf(a, b) ==
    [id |-> "e" \o a \o "-" \o b, source |-> a, target |-> b,
     sourceHandle |-> NullHandle, targetHandle |-> NullHandle]

\* the issues hold the excess fan-out warning for node a
WarnsMultiple(issues, ns, a) ==
    \E k \in 1..Len(issues) : \E i \in 1..Len(ns) :
        /\ ns[i].id = a
        /\ issues[k] = [type    |-> "warning",
                        message |-> "\"" \o ns[i].label
                                       \o "\" has multiple outgoing connections (should have 1)",
                        nodeId  |-> a]

\* C1: in every reachable state every edge's source and target are ids of
\* nodes present in the node collection.
C1_ReferentialIntegrity ==
    undef = {} =>
        \A i \in 1..Len(edges) :
            /\ \E j \in 1..Len(nodes) : nodes[j].id = edges[i].source
            /\ \E j \in 1..Len(nodes) : nodes[j].id = edges[i].target

\* C2: in every state reached from the empty snapshot through the editing
\* operations, no edge has a thankyou node as its source.
C2_TerminalNoSuccessors ==
    \A i \in 1..Len(edges) : ~HasType(nodes, edges[i].source, "thankyou")

\* a connection out of a thankyou node has just been refused, an edge into a
\* thankyou node being present
C2_Witness ==
    /\ last = Did("onConnect", "rejected")
    /\ \E i \in 1..Len(edges) : HasType(nodes, edges[i].target, "thankyou")

\* C3: after deleteNode(x) no node has id x and no edge has x as source or
\* target; every other node and every edge not touching x is kept, in its
\* original order.
C3_CascadeDelete ==
    [][\A x \in NodeIdInputs :
          deleteNode(x) =>
             /\ \A i \in 1..Len(nodes') : nodes'[i].id # x
             /\ \A i \in 1..Len(edges') : edges'[i].source # x /\ edges'[i].target # x
             /\ nodes' = SelectSeq(nodes, LAMBDA n : n.id # x)
             /\ edges' = SelectSeq(edges, LAMBDA e : e.source # x /\ e.target # x)]_vars

\* a deletion has just taken edges with it, and left a node and an edge
C3_Witness ==
    /\ last = Did("deleteNode", "cascade")
    /\ Len(nodes) > 0
    /\ Len(edges) > 0

\* C4: onConnect(a, b) where a is a thankyou node leaves nodes, edges and
\* counters unchanged, writes nothing and schedules no write.
C4_HardRule ==
    [][\A a \in IdsOf(nodes), b \in IdsOf(nodes) :
          (onConnect(a, b, NullHandle, NullHandle) /\ HasType(nodes, a, "thankyou")) =>
              UNCHANGED <<nodes, edges, nodeCounters, storage, pending>>]_vars

\* a connection has just been refused with edges present and no timer pending
C4_Witness ==
    /\ last = Did("onConnect", "rejected")
    /\ Len(edges) > 0
    /\ pending = 0

C7_NodeIdsUnique ==
    \A i \in 1..Len(nodes) : \A j \in 1..Len(nodes) :
        i # j => nodes[i].id # nodes[j].id

\* C8: the ordinal in the label addNode generates for upsell or downsell is
\* greater than every ordinal generated for that type before, whatever was
\* deleted in between.
C8_OrdinalsIncrease ==
    [][\A type \in Repeatable, position \in Positions :
          addNode(type, position) =>
             \E k \in (issued[type] + 1)..(created + 1) :
                 nodes'[Len(nodes')].label = NODE_CONFIGS[type].label \o " " \o ToString(k)]_vars

\* the second upsell has just been created after the first was deleted
C8_Witness ==
    /\ last = Did("addNode", "upsell")
    /\ issued["upsell"] = 2
    /\ Len(nodes) = 1

\* C9: addNode(type, position) adds one to the counter of the type and
\* leaves the other counters; it appends one node of that type and position
\* with the registry's button label and with the label of the type, followed
\* for upsell and downsell by the new counter value; edges and the nodes
\* present are unchanged.
C9_AddNodeEffect ==
    [][\A type \in NodeTypes, position \in Positions :
          addNode(type, position) =>
             /\ type \in DOMAIN nodeCounters
             /\ IsNumber(nodeCounters[type])
             /\ DOMAIN nodeCounters' = DOMAIN nodeCounters
             /\ nodeCounters'[type] = nodeCounters[type] + 1
             /\ \A t \in DOMAIN nodeCounters \ {type} : nodeCounters'[t] = nodeCounters[t]
             /\ Len(nodes') = Len(nodes) + 1
             /\ SubSeq(nodes', 1, Len(nodes)) = nodes
             /\ LET node == nodes'[Len(nodes')]
                IN  /\ node.type = type
                    /\ node.position = position
                    /\ node.buttonLabel = NODE_CONFIGS[type].buttonLabel
                    /\ node.label =
                          IF type \in Repeatable
                          THEN NODE_CONFIGS[type].label \o " " \o ToString(nodeCounters'[type])
                          ELSE NODE_CONFIGS[type].label
             /\ edges' = edges]_vars

\* C10: importJSON(exportJSON()) returns true and leaves nodes, edges and
\* counters equal to what they were.
C10_RoundTrip ==
    [][(undef = {} /\ importJSON("export", exportJSON)) =>
          /\ last' = Did("importJSON", "export")
          /\ nodes' = nodes
          /\ edges' = edges
          /\ nodeCounters' = nodeCounters]_vars

\* the texts importJSON is given: the files, and what exportJSON returns
ImportTexts ==
    {<<name, ImportFiles[name]>> : name \in DOMAIN ImportFiles} \cup {<<"export", exportJSON>>}

\* the text parses to an object whose nodes and edges are both lists
WellShaped(json) ==
    /\ json.wellFormed
    /\ "nodes" \in json.has /\ json.nodesArr
    /\ "edges" \in json.has /\ json.edgesArr

\* C11: importJSON given a text that does not parse, or whose nodes or edges
\* is missing or not a list, returns false, leaves nodes, edges and counters
\* as they were, writes nothing to localStorage and schedules no write.
C11_ImportRejection ==
    [][\A t \in ImportTexts :
          (importJSON(t[1], t[2]) /\ ~WellShaped(t[2])) =>
              /\ last' = Did("importJSON", "rejected")
              /\ UNCHANGED <<nodes, edges, nodeCounters, undef, storage, pending>>]_vars

\* an import has just been refused over a graph that is stored
C11_Witness ==
    /\ last = Did("importJSON", "rejected")
    /\ Len(nodes) > 0
    /\ storage.present
    /\ storage.text.nodes = nodes

\* C12: when importJSON accepts a text, nodes, edges and counters become
\* those of the text (the initial counters when it has none), and in the same
\* step localStorage holds that snapshot; no timer is involved.
C12_ImportAcceptance ==
    [][\A t \in ImportTexts :
          (importJSON(t[1], t[2]) /\ WellShaped(t[2])) =>
              /\ last' = Did("importJSON", t[1])
              /\ nodes' = t[2].nodes
              /\ edges' = t[2].edges
              /\ nodeCounters' = IF "nodeCounters" \in t[2].has THEN t[2].nodeCounters
                                 ELSE [type \in NodeTypes |-> 0]
              /\ storage'.present
              /\ storage'.text.wellFormed
              /\ storage'.text.has = {"nodes", "edges", "nodeCounters"}
              /\ storage'.text.nodes = nodes'
              /\ storage'.text.edges = edges'
              /\ storage'.text.nodeCounters = nodeCounters'
              /\ pending' = pending]_vars

\* a file has just replaced a graph that had nodes, while a timer is pending
C12_Witness ==
    /\ last = Did("importJSON", "partialCounters")
    /\ pending > 0
    /\ nodes = <<>>
    /\ storage.present
    /\ storage.text.nodes = <<>>
    /\ created > 0

\* C13: a second deleteNode(x) changes nothing after the first, and
\* deleteNode(x) for an id no node has leaves nodes, edges and counters
\* unchanged.
C13_DeleteIdempotent ==
    [][\A x \in NodeIdInputs :
          deleteNode(x) =>
             /\ SelectSeq(nodes', LAMBDA n : n.id # x) = nodes'
             /\ SelectSeq(edges', LAMBDA e : e.source # x /\ e.target # x) = edges'
             /\ nodeCounters' = nodeCounters
             /\ (\A i \in 1..Len(nodes) : nodes[i].id # x) =>
                    UNCHANGED <<nodes, edges, nodeCounters>>]_vars

\* the text is empty once trimmed
Blank(text) == text \in {"", " "}

TableIssues(ns, es) ==
    LET n == Len(ns)
        In(i) == \E k \in 1..Len(es) : es[k].target = ns[i].id
        Out(i) == Cardinality({k \in 1..Len(es) : es[k].source = ns[i].id})
        Pick(Test(_)) == SelectSeq([i \in 1..n |-> i], Test)
        Issues(sel, type, Text(_)) ==
            [k \in 1..Len(sel) |->
                [type    |-> type,
                 message |-> "\"" \o ns[sel[k]].label \o "\"" \o Text(sel[k]),
                 nodeId  |-> ns[sel[k]].id]]
        disconnected == Pick(LAMBDA i : ~In(i) /\ Out(i) = 0 /\ n # 1)
        fanOut == Pick(LAMBDA i : ns[i].type = "sales"
                                     /\ (Out(i) > 1 \/ (Out(i) = 0 /\ n # 1)))
        terminal == Pick(LAMBDA i : ns[i].type = "thankyou" /\ Out(i) > 0)
        entries == Cardinality({i \in 1..n : ~In(i) /\ ns[i].type # "thankyou"})
    IN  Issues(disconnected, "warning", LAMBDA i : " is disconnected")
            \o Issues(fanOut, "warning",
                      LAMBDA i : IF Out(i) > 1
                                 THEN " has multiple outgoing connections (should have 1)"
                                 ELSE " has no outgoing connection")
            \o Issues(terminal, "error", LAMBDA i : " should not have outgoing connections")
            \o (IF entries > 1 /\ n # 1
                THEN <<[type    |-> "warning",
                        message |-> "Funnel has " \o ToString(entries)
                                       \o " entry points (usually should be 1)"]>>
                ELSE <<>>)

SalesToThankYou ==
    /\ Len(nodes) = 2
    /\ nodes[1].type = "sales"
    /\ nodes[2].type = "thankyou"
    /\ Len(edges) = 1
    /\ edges[1].source = nodes[1].id
    /\ edges[1].target = nodes[2].id

\* C16: for a sales node connected to a thankyou node by one edge,
\* getValidationIssues returns the empty list.
C16_MinimalFunnelClean ==
    SalesToThankYou => getValidationIssues = <<>>

\* the edge of that graph has just been drawn
C16_Witness ==
    /\ SalesToThankYou
    /\ last = Did("onConnect", "added")

\* the nodes that no edge arrives at and that are not thankyou nodes
EntryNodes == {i \in 1..Len(nodes) :
                  /\ nodes[i].type # "thankyou"
                  /\ \A k \in 1..Len(edges) : edges[k].target # nodes[i].id}

\* the issues that carry no nodeId
GraphWarnings ==
    {k \in 1..Len(getValidationIssues) : "nodeId" \notin DOMAIN getValidationIssues[k]}

\* C17: with two or more nodes that have no incoming edge and are not
\* thankyou nodes, getValidationIssues holds exactly one entry-points warning,
\* which carries no nodeId and gives their number; with at most one such
\* node it holds none.
C17_EntryPointsWarning ==
    /\ Cardinality(EntryNodes) >= 2 =>
          /\ Cardinality(GraphWarnings) = 1
          /\ \A k \in GraphWarnings :
                getValidationIssues[k] =
                   [type    |-> "warning",
                    message |-> "Funnel has " \o ToString(Cardinality(EntryNodes))
                                   \o " entry points (usually should be 1)"]
    /\ Cardinality(EntryNodes) <= 1 => GraphWarnings = {}

\* two unconnected nodes, neither a thankyou node, the second just added
C17_Witness ==
    /\ last.op = "addNode"
    /\ Cardinality(EntryNodes) = 2
    /\ Cardinality(GraphWarnings) = 1

\* C18: once an operation has run and no timer is pending any more,
\* localStorage holds nodes, edges and counters as they are in memory.
C18_EventualPersistence ==
    (pending = 0 /\ last # NoOp) =>
        /\ storage.present
        /\ storage.text.wellFormed
        /\ storage.text.has = {"nodes", "edges", "nodeCounters"}
        /\ storage.text.nodes = nodes
        /\ storage.text.edges = edges
        /\ storage.text.nodeCounters = nodeCounters

\* the last timer has just written a graph with an edge
C18_Witness ==
    /\ last = Did("saveToStorage", "")
    /\ pending = 0
    /\ Len(edges) > 0
    /\ storage.text.edges = edges

\* C19: a second mutating operation issued while the write of the first is
\* still pending leaves fewer than two writes to come for the two of them.
C19_WritesCoalesced ==
    [][\A type \in NodeTypes, position \in Positions :
          (addNode(type, position) /\ pending = 1) => pending' < 2]_vars

\* C20: clearCanvas leaves nothing in localStorage under the key, and nothing
\* is there either after a write scheduled before it has fired.
C20_ClearStaysEmpty ==
    [][/\ clearCanvas => ~storage'.present
       /\ (TimerFires /\ last = Did("clearCanvas", "")) => ~storage'.present]_vars

\* C21: loadFromStorage over a missing value, or over a value that JSON.parse
\* rejects, changes nothing: nodes, edges, counters and the stored value stay
\* as they were and no timer is set.
C21_LoadFailureKeeps ==
    [][(loadFromStorage /\ (~storage.present \/ ~storage.text.wellFormed)) =>
          /\ UNCHANGED <<nodes, edges, nodeCounters, undef, storage, pending>>
          /\ last' = Did("loadFromStorage", "kept")]_vars

\* a failed load has just left a non-empty canvas alone
C21_Witness ==
    /\ last = Did("loadFromStorage", "kept")
    /\ Len(nodes) > 0
    /\ \E type \in NodeTypes : Prop(nodeCounters, type) # 0

\* nodes is a list, edges is a list and nodeCounters gives a number for each
\* of the five types
SnapshotShaped(und, c) ==
    /\ und = {}
    /\ DOMAIN c = NodeTypes
    /\ \A t \in NodeTypes : IsNumber(c[t])

\* C22: after loadFromStorage or importJSON, whatever the stored value or the
\* text is, nodes and edges are lists and nodeCounters gives a number for each
\* of the five types: a load or an import that cannot produce such a snapshot
\* leaves the one before it in place.
C22_SnapshotValid ==
    [][(SnapshotShaped(undef, nodeCounters) /\ (loadFromStorage \/
          \E name \in DOMAIN ImportFiles : importJSON(name, ImportFiles[name])))
          => SnapshotShaped(undef', nodeCounters')]_vars

\* the sum of the five counters
Total(c) == c["sales"] + c["order"] + c["upsell"] + c["downsell"] + c["thankyou"]

\* C23: addNode adds one to the counter of its type and leaves the others; no
\* other editing operation changes a counter.  So along a run of editing
\* operations no counter decreases, and the counters count the nodes ever
\* created.
C23_CountersMonotone ==
    [][/\ \A type \in NodeTypes, position \in Positions :
             addNode(type, position) =>
                 \A t \in NodeTypes :
                     nodeCounters'[t] = nodeCounters[t] + (IF t = type THEN 1 ELSE 0)
       /\ (~ \E type \in NodeTypes, position \in Positions : addNode(type, position))
             => nodeCounters' = nodeCounters
       /\ \A t \in NodeTypes : nodeCounters'[t] >= nodeCounters[t]
       /\ Total(nodeCounters') = created']_vars

\* both upsell nodes ever created have been deleted and the counter still says 2
C23_Witness ==
    /\ last.op = "deleteNode"
    /\ last.res # "absent"
    /\ nodeCounters["upsell"] = 2
    /\ Len(nodes) = 0

\* what a node is for good: its id, its type and its button text
Identity(n) == <<n.id, n.type, n.buttonLabel>>

\* the nodes of after that were there before: all of them, or all but the
\* one addNode appended
Survivors(before, after) ==
    IF Len(after) > Len(before) THEN SubSeq(after, 1, Len(before)) ELSE after

\* each node of kept is a node of before with the same identity, in the same order
Embeds(kept, before) ==
    \E f \in [1..Len(kept) -> 1..Len(before)] :
        /\ \A i \in 1..Len(kept), j \in 1..Len(kept) : i < j => f[i] < f[j]
        /\ \A i \in 1..Len(kept) : Identity(kept[i]) = Identity(before[f[i]])

\* C24: a node present before and after an editing operation keeps its id,
\* its type and its button text; updateNodeLabel changes the label of the one
\* node it is aimed at and nothing else of that node, and leaves every other
\* node, the edges and the counters as they were.
C24_NodeIdentity ==
    [][/\ Embeds(Survivors(nodes, nodes'), nodes)
       /\ \A nodeId \in IdsOf(nodes) \cup {AbsentNodeId}, label \in UserLabels :
             updateNodeLabel(nodeId, label) =>
                 /\ Len(nodes') = Len(nodes)
                 /\ Cardinality({i \in 1..Len(nodes) : nodes'[i] # nodes[i]}) <= 1
                 /\ \A i \in 1..Len(nodes) :
                       nodes'[i] = [nodes[i] EXCEPT !.label = nodes'[i].label]
                 /\ UNCHANGED <<edges, nodeCounters>>]_vars

\* C25: deleteEdge(edgeId) removes the edge with that id when there is one and
\* changes nothing of the snapshot when there is none; either way the nodes,
\* the counters and the edges with another id stay as they were, in their order.
C25_DeleteEdge ==
    [][\A edgeId \in EdgeIdInputs :
          deleteEdge(edgeId) =>
              /\ edgeId \notin IdsOf(edges')
              /\ edges' = SelectSeq(edges, LAMBDA e : e.id # edgeId)
              /\ edgeId \notin IdsOf(edges) => edges' = edges
              /\ UNCHANGED <<nodes, nodeCounters, undef>>]_vars

\* one of two edges has just been removed
C25_Witness ==
    /\ last = Did("deleteEdge", "removed")
    /\ Len(edges) = 1

\* C26: when saveToStorage has run on a snapshot and loadFromStorage is called
\* with no write in between, the snapshot in memory becomes the one that was
\* saved.  Here the load follows the save at once, so the snapshot saved is
\* the one in memory and the load has to leave it as it is.
C26_DurableRoundTrip ==
    [][(last = Did("saveToStorage", "") /\ loadFromStorage) =>
          /\ last' = Did("loadFromStorage", "loaded")
          /\ UNCHANGED <<nodes, edges, nodeCounters, undef>>]_vars

\* C28: clearCanvas, from any snapshot, leaves no nodes, no edges and every
\* counter at 0, so that an addNode of a repeatable type that comes next
\* labels its node with ordinal 1.
C28_ClearResets ==
    [][/\ clearCanvas =>
             /\ nodes' = <<>>
             /\ edges' = <<>>
             /\ undef' = {}
             /\ nodeCounters' = [t \in NodeTypes |-> 0]
       /\ \A type \in Repeatable, position \in Positions :
             (last = Did("clearCanvas", "") /\ addNode(type, position)) =>
                 /\ Len(nodes') = 1
                 /\ nodes'[1].label = NODE_CONFIGS[type].label \o " 1"]_vars

\* a canvas that had nodes created on it has just been cleared, and a node
\* can still be added
C28_Witness ==
    /\ last = Did("clearCanvas", "")
    /\ created > 0
    /\ created < MaxCreated
    /\ pending < MaxBurst

\* the nodes of a type that are on the canvas
Population(ns, type) == Cardinality({i \in 1..Len(ns) : ns[i].type = type})

\* C29: in every state the editing operations reach from the empty canvas,
\* the counter of each type is at least the number of nodes of that type
\* present.
C29_CountersBoundPopulation ==
    \A type \in NodeTypes : nodeCounters[type] >= Population(nodes, type)

\* two nodes of one type have been added and its counter is 2
C29_Witness ==
    /\ \E type \in NodeTypes : nodeCounters[type] = 2 /\ Population(nodes, type) = 2
    /\ last.op = "addNode"

\* C27: after every mutation of the store, those that change the edges alone
\* included, the list ValidationPanel renders is getValidationIssues() of the
\* nodes and edges of that moment.
C27_PanelFresh == panelIssues = getValidationIssues

\* C30: in every state that addNode, onConnect with any source and target
\* handle, deleteNode and deleteEdge reach from the empty canvas, no two edges
\* have the same id.
C30_EdgeIdsUnique ==
    \A i \in 1..Len(edges), j \in 1..Len(edges) : edges[i].id = edges[j].id => i = j

\* a label of the form addNode gives to a node of a repeatable type
DefaultForm(type, label) ==
    \E k \in 0..(MaxCreated + 1) : label = NODE_CONFIGS[type].label \o " " \o ToString(k)

\* C31: when importJSON has accepted a text, that of a file without counters
\* included, an addNode of a repeatable type that comes next gives its node a
\* label that no imported node of that type with a label of the default form
\* carries.
C31_LabelsUniqueAcrossImport ==
    [][\A type \in Repeatable, position \in Positions :
          (/\ last.op = "importJSON"
           /\ last.res # "rejected"
           /\ addNode(type, position)) =>
              \A i \in 1..Len(nodes) :
                  (nodes[i].type = type /\ DefaultForm(type, nodes[i].label))
                      => nodes'[Len(nodes')].label # nodes[i].label]_vars

====
